---- MODULE Spec2Model ----
(***************************************************************************)
(* The air-quality analysis script (air_quality_analysis.py and its        *)
(* notebook rendering air_quality_solution.py) as a state machine: one     *)
(* table df, mutated and queried by the script's statements from top to    *)
(* bottom.                                                                 *)
(*                                                                         *)
(* Numbers.  A number is an integer count of twentieths (0.05), so that    *)
(* readings given to one decimal place are even and the median of two of   *)
(* them is exact.  A float cell is [nan, v]; a mean is the exact rational  *)
(* [sum, n] (n = 0: NaN), compared by cross-multiplication.  Floating      *)
(* point rounding of sums is not modelled.                                 *)
(*                                                                         *)
(* Library semantics are those of the pandas releases the script runs      *)
(* under (resample("H") is accepted, df[col].fillna(..., inplace=True)     *)
(* writes through to df).                                                  *)
(***************************************************************************)
EXTENDS Integers, Sequences, FiniteSets, TLC

VARIABLES
    pc,                         \* the statement the script is at
    df,                         \* the table: a sequence of rows
    raw,                        \* history: the table as loaded (line 7)
    described,                  \* pollutant -> describe() result
    corr,                       \* the correlation matrix (defined or NaN)
    avg_pm25_by_station, highest_pm25_station, highest_pm25_value,
    avg_o3_by_station, lowest_o3_station, lowest_o3_value,
    daily_avg_pm25_s003, days_exceeding_threshold,
    hourly_pm25_s001, peak_hour_pm25, peak_pm25_value,
    aqi_counts,                 \* value_counts() of the category column
    printed                     \* the report sections printed so far

vars == <<pc, df, raw, described, corr,
          avg_pm25_by_station, highest_pm25_station, highest_pm25_value,
          avg_o3_by_station, lowest_o3_station, lowest_o3_value,
          daily_avg_pm25_s003, days_exceeding_threshold,
          hourly_pm25_s001, peak_hour_pm25, peak_pm25_value,
          aqi_counts, printed>>

outputs == <<described, corr,
          avg_pm25_by_station, highest_pm25_station, highest_pm25_value,
          avg_o3_by_station, lowest_o3_station, lowest_o3_value,
          daily_avg_pm25_s003, days_exceeding_threshold,
          hourly_pm25_s001, peak_hour_pm25, peak_pm25_value, aqi_counts>>

----------------------------------------------------------------------------
(* Numbers *)

Tenths(t) == 2 * t
Whole(w) == Tenths(10 * w)

NaN == [nan |-> TRUE, v |-> 0]
Num(x) == [nan |-> FALSE, v |-> x]

\* Python's x > y on floats: False as soon as one side is NaN.
Gt(x, y) == ~x.nan /\ ~y.nan /\ x.v > y.v
Le(x, y) == ~x.nan /\ ~y.nan /\ x.v <= y.v

None == "None"

----------------------------------------------------------------------------
(* Columns *)

CleanCols == <<"PM2.5", "PM10", "O3", "NO2", "Temperature", "Humidity">>
pollutants == <<"PM2.5", "PM10", "O3", "NO2">>
correlation_cols == pollutants \o <<"Temperature", "Humidity">>
AqiCol == "PM2.5_AQI_Category"

Range(s) == {s[i] : i \in DOMAIN s}

\* The stations, in the sorted order a groupby lists its keys.
StationOrder == <<"S001", "S002", "S003">>
specific_station_id == "S003"
hourly_station_id == "S001"
threshold == Num(Whole(50))

----------------------------------------------------------------------------
(* Sequences of numbers *)

RECURSIVE Insert(_, _)
Insert(x, s) ==
    IF s = <<>> THEN <<x>>
    ELSE IF x <= Head(s) THEN <<x>> \o s
    ELSE <<Head(s)>> \o Insert(x, Tail(s))

RECURSIVE Sort(_)
Sort(s) == IF s = <<>> THEN <<>> ELSE Insert(Head(s), Sort(Tail(s)))

RECURSIVE SumSeq(_)
SumSeq(s) == IF s = <<>> THEN 0 ELSE Head(s) + SumSeq(Tail(s))

\* The cells of column c, top to bottom.
Column(d, c) == [i \in DOMAIN d |-> d[i][c]]

IsPresent(x) == ~x.nan

\* The non-missing values of a sequence of cells.
Present(cells) ==
    LET kept == SelectSeq(cells, IsPresent)
    IN  [i \in DOMAIN kept |-> kept[i].v]

\* Median as a lower-middle pick: no averaging on an even count.
MedianLow(cells) ==
    LET s == Sort(Present(cells))
        n == Len(s)
    IN  IF n = 0 THEN NaN ELSE Num(s[(n + 1) \div 2])

\* Series.median(): skips NaN; NaN when nothing is left; the middle value, or
\* the average of the two middle values.
Median(cells) ==
    LET s == Sort(Present(cells))
        n == Len(s)
    IN  IF n = 0 THEN NaN
        ELSE IF n % 2 = 1 THEN Num(s[(n + 1) \div 2])
        ELSE Num((s[n \div 2] + s[n \div 2 + 1]) \div 2)

\* Series.mean(): skips NaN; NaN (n = 0) when nothing is left.
Mean(cells) == [sum |-> SumSeq(Present(cells)), n |-> Len(Present(cells))]

MeanIsNaN(m) == m.n = 0
MeanGt(a, b) == a.n > 0 /\ b.n > 0 /\ a.sum * b.n > b.sum * a.n
MeanLt(a, b) == MeanGt(b, a)
\* mean > x for a number x
MeanGtNum(m, x) == m.n > 0 /\ ~x.nan /\ m.sum > x.v * m.n

----------------------------------------------------------------------------
(* Series: a sequence of [key, val] in index order, val a mean *)

\* df.groupby(key)[c].mean(): one entry per distinct key present, the keys in
\* sorted order (order lists every possible key, sorted).
GroupMean(d, keycol, order, c) ==
    LET present == SelectSeq(order, LAMBDA k : \E i \in DOMAIN d : d[i][keycol] = k)
    IN  [j \in DOMAIN present |->
            [key |-> present[j],
             val |-> Mean(Column(SelectSeq(d, LAMBDA r : r[keycol] = present[j]), c))]]

\* A scan that keeps the last position holding the greatest value.
RECURSIVE ArgMaxLastFrom(_, _, _)
ArgMaxLastFrom(s, i, best) ==
    IF i > Len(s) THEN best
    ELSE IF MeanIsNaN(s[i].val) THEN ArgMaxLastFrom(s, i + 1, best)
    ELSE IF best = 0 \/ ~MeanLt(s[i].val, s[best].val) THEN ArgMaxLastFrom(s, i + 1, i)
    ELSE ArgMaxLastFrom(s, i + 1, best)

\* The scan behind idxmax / idxmin: the first position holding the extreme
\* value, NaN entries skipped; 0 when there is none.
RECURSIVE ArgMaxFrom(_, _, _)
ArgMaxFrom(s, i, best) ==
    IF i > Len(s) THEN best
    ELSE IF MeanIsNaN(s[i].val) THEN ArgMaxFrom(s, i + 1, best)
    ELSE IF best = 0 \/ MeanGt(s[i].val, s[best].val) THEN ArgMaxFrom(s, i + 1, i)
    ELSE ArgMaxFrom(s, i + 1, best)

RECURSIVE ArgMinFrom(_, _, _)
ArgMinFrom(s, i, best) ==
    IF i > Len(s) THEN best
    ELSE IF MeanIsNaN(s[i].val) THEN ArgMinFrom(s, i + 1, best)
    ELSE IF best = 0 \/ MeanLt(s[i].val, s[best].val) THEN ArgMinFrom(s, i + 1, i)
    ELSE ArgMinFrom(s, i + 1, best)

ArgMax(s) == ArgMaxFrom(s, 1, 0)
ArgMin(s) == ArgMinFrom(s, 1, 0)

\* Series.idxmax() / idxmin() raise on a series with no value to pick.
IdxRaises(s) == ArgMax(s) = 0

\* Series.max() / min(): the extreme value, NaN when there is none.
SeriesMax(s) == IF ArgMax(s) = 0 THEN Mean(<<>>) ELSE s[ArgMax(s)].val
SeriesMin(s) == IF ArgMin(s) = 0 THEN Mean(<<>>) ELSE s[ArgMin(s)].val

----------------------------------------------------------------------------
(* 2. Data Cleaning and Preprocessing *)

WithCell(r, c, x) == [k \in DOMAIN r \cup {c} |-> IF k = c THEN x ELSE r[k]]

\* df[col].fillna(df[col].median(), inplace=True): the median is the
\* argument, taken once from the column as it stands; filling with NaN
\* leaves a cell missing.
FillColumn(d, c) ==
    LET m == Median(Column(d, c))
    IN  [i \in DOMAIN d |-> IF d[i][c].nan THEN WithCell(d[i], c, m) ELSE d[i]]

RECURSIVE FillAll(_, _)
FillAll(d, cols) ==
    IF cols = <<>> THEN d ELSE FillAll(FillColumn(d, Head(cols)), Tail(cols))

\* A NaN-propagating maximum (numpy.maximum(0, x)).
NonNegativeKeepNaN(x) == IF x.nan THEN x ELSE IF x.v > 0 THEN x ELSE Num(0)

\* The magnitude instead of the clamp.
NonNegativeAbs(x) == IF x.nan THEN Num(0) ELSE IF x.v < 0 THEN Num(0 - x.v) ELSE x

\* max(0, x): x when x > 0, else the first argument 0 (also for NaN, since
\* NaN > 0 is False).
NonNegative(x) == IF Gt(x, Num(0)) THEN x ELSE Num(0)

ClampColumn(d, c) == [i \in DOMAIN d |-> WithCell(d[i], c, NonNegative(d[i][c]))]

RECURSIVE ClampAll(_, _)
ClampAll(d, cols) ==
    IF cols = <<>> THEN d ELSE ClampAll(ClampColumn(d, Head(cols)), Tail(cols))

\* pd.to_datetime on a well-formed timestamp text.
ToDatetime(t) == [date |-> t.text[1], hour |-> t.text[2]]

Goto(next, line) == pc' = next /\ printed' = Append(printed, line)
Abort == pc' = "aborted" /\ printed' = printed

FillNa ==
    /\ pc = "fillna"
    /\ df' = FillAll(df, CleanCols)
    /\ Goto("clamp", "missing before cleaning")
    /\ UNCHANGED <<raw, outputs>>

Clamp ==
    /\ pc = "clamp"
    /\ df' = ClampAll(df, CleanCols)
    /\ Goto("to_datetime", "missing after cleaning")
    /\ UNCHANGED <<raw, outputs>>

ParseTimestamp ==
    /\ pc = "to_datetime"
    /\ df' = [i \in DOMAIN df |-> WithCell(df[i], "Timestamp", ToDatetime(df[i]["Timestamp"]))]
    /\ pc' = "describe"
    /\ UNCHANGED <<raw, outputs, printed>>

----------------------------------------------------------------------------
(* 3. Basic Statistical Analysis *)

\* Series.describe(): count, mean, min, 50%, max (min and max NaN on no data).
Describe(cells) ==
    LET s == Sort(Present(cells))
    IN  [count |-> Len(s),
         mean  |-> Mean(cells),
         min   |-> IF s = <<>> THEN NaN ELSE Num(s[1]),
         med   |-> Median(cells),
         max   |-> IF s = <<>> THEN NaN ELSE Num(s[Len(s)])]

DescribePollutants ==
    /\ pc = "describe"
    /\ described' = [p \in Range(pollutants) |-> Describe(Column(df, p))]
    /\ Goto("corr", "descriptive statistics")
    /\ UNCHANGED <<df, raw, corr,
                   avg_pm25_by_station, highest_pm25_station, highest_pm25_value,
                   avg_o3_by_station, lowest_o3_station, lowest_o3_value,
                   daily_avg_pm25_s003, days_exceeding_threshold,
                   hourly_pm25_s001, peak_hour_pm25, peak_pm25_value, aqi_counts>>

\* n * Sum(xy) - Sum(x) * Sum(y): n^2 times the covariance of two columns.
Covariance(d, a, b) ==
    LET n == Len(d)
        xy == [i \in DOMAIN d |-> d[i][a].v * d[i][b].v]
    IN  n * SumSeq(xy) - SumSeq(Present(Column(d, a))) * SumSeq(Present(Column(d, b)))

\* One entry of DataFrame.corr() over columns without missing cells: NaN when
\* either column has no variance, 1.0 on the diagonal, else the sign of the
\* coefficient (its magnitude is not modelled).
Pearson(d, a, b) ==
    IF Covariance(d, a, a) = 0 \/ Covariance(d, b, b) = 0 THEN "NaN"
    ELSE IF a = b THEN "1.0"
    ELSE IF Covariance(d, a, b) > 0 THEN "+"
    ELSE IF Covariance(d, a, b) < 0 THEN "-"
    ELSE "0.0"

CorrelationMatrix ==
    /\ pc = "corr"
    /\ corr' = [a \in Range(correlation_cols) |->
                   [b \in Range(correlation_cols) |-> Pearson(df, a, b)]]
    /\ Goto("station_pm25", "correlation matrix")
    /\ UNCHANGED <<df, raw, described,
                   avg_pm25_by_station, highest_pm25_station, highest_pm25_value,
                   avg_o3_by_station, lowest_o3_station, lowest_o3_value,
                   daily_avg_pm25_s003, days_exceeding_threshold,
                   hourly_pm25_s001, peak_hour_pm25, peak_pm25_value, aqi_counts>>

----------------------------------------------------------------------------
(* 4. Station-wise Analysis *)

\* Lines 45-48: the groupby, then idxmax() (which raises on an empty series
\* and ends the script), then max().
StationPM25 ==
    /\ pc = "station_pm25"
    /\ LET s == GroupMean(df, "Station ID", StationOrder, "PM2.5")
       IN  /\ avg_pm25_by_station' = s
           /\ IF IdxRaises(s)
              THEN /\ Abort
                   /\ UNCHANGED <<highest_pm25_station, highest_pm25_value>>
              ELSE /\ highest_pm25_station' = s[ArgMax(s)].key
                   /\ highest_pm25_value' = SeriesMax(s)
                   /\ Goto("station_o3", "highest PM2.5 station")
    /\ UNCHANGED <<df, raw, described, corr,
                   avg_o3_by_station, lowest_o3_station, lowest_o3_value,
                   daily_avg_pm25_s003, days_exceeding_threshold,
                   hourly_pm25_s001, peak_hour_pm25, peak_pm25_value, aqi_counts>>

\* Lines 51-54.
StationO3 ==
    /\ pc = "station_o3"
    /\ LET s == GroupMean(df, "Station ID", StationOrder, "O3")
       IN  /\ avg_o3_by_station' = s
           /\ IF IdxRaises(s)
              THEN /\ Abort
                   /\ UNCHANGED <<lowest_o3_station, lowest_o3_value>>
              ELSE /\ lowest_o3_station' = s[ArgMin(s)].key
                   /\ lowest_o3_value' = SeriesMin(s)
                   /\ Goto("daily_s003", "lowest O3 station")
    /\ UNCHANGED <<df, raw, described, corr,
                   avg_pm25_by_station, highest_pm25_station, highest_pm25_value,
                   daily_avg_pm25_s003, days_exceeding_threshold,
                   hourly_pm25_s001, peak_hour_pm25, peak_pm25_value, aqi_counts>>

\* The dates of a table, ascending: the order a groupby over dates lists them.
RECURSIVE SortedSet(_)
SortedSet(S) ==
    IF S = {} THEN <<>>
    ELSE LET m == CHOOSE x \in S : \A y \in S : x <= y
         IN  <<m>> \o SortedSet(S \ {m})

Dates(d) == {d[i]["Timestamp"].date : i \in DOMAIN d}

\* Lines 58-59: the station's rows, copied, with a Date column of their own.
S003Frame(d) ==
    LET rows == SelectSeq(d, LAMBDA r : r["Station ID"] = specific_station_id)
    IN  [i \in DOMAIN rows |-> WithCell(rows[i], "Date", rows[i]["Timestamp"].date)]

\* The filter with >= in place of >.
ExceedingOrEqual(s, t) ==
    SelectSeq(s, LAMBDA e : e.val.n > 0 /\ e.val.sum >= t.v * e.val.n)

\* Line 63: series[series > threshold].
Exceeding(s, t) == SelectSeq(s, LAMBDA e : MeanGtNum(e.val, t))

\* The Date column written to df itself instead of to a copy of the
\* station's rows.
DailyS003InPlace ==
    /\ pc = "daily_s003"
    /\ df' = [i \in DOMAIN df |-> WithCell(df[i], "Date", df[i]["Timestamp"].date)]
    /\ LET s003_df == S003Frame(df)
           s == GroupMean(s003_df, "Date", SortedSet(Dates(s003_df)), "PM2.5")
       IN  /\ daily_avg_pm25_s003' = s
           /\ days_exceeding_threshold' = Exceeding(s, threshold)
    /\ Goto("hourly_s001", "days exceeding threshold")
    /\ UNCHANGED <<raw, described, corr,
                   avg_pm25_by_station, highest_pm25_station, highest_pm25_value,
                   avg_o3_by_station, lowest_o3_station, lowest_o3_value,
                   hourly_pm25_s001, peak_hour_pm25, peak_pm25_value, aqi_counts>>

\* Lines 58-64.
DailyS003 ==
    /\ pc = "daily_s003"
    /\ LET s003_df == S003Frame(df)
           s == GroupMean(s003_df, "Date", SortedSet(Dates(s003_df)), "PM2.5")
       IN  /\ daily_avg_pm25_s003' = s
           /\ days_exceeding_threshold' = Exceeding(s, threshold)
    /\ Goto("hourly_s001", "days exceeding threshold")
    /\ UNCHANGED <<df, raw, described, corr,
                   avg_pm25_by_station, highest_pm25_station, highest_pm25_value,
                   avg_o3_by_station, lowest_o3_station, lowest_o3_value,
                   hourly_pm25_s001, peak_hour_pm25, peak_pm25_value, aqi_counts>>

----------------------------------------------------------------------------
(* 5. Time-series Analysis *)

\* Line 69: the rows of station S001 on the earliest date of the whole table.
FirstDayFrame(d) ==
    LET first == CHOOSE x \in Dates(d) : \A y \in Dates(d) : x <= y
    IN  SelectSeq(d, LAMBDA r : /\ r["Station ID"] = hourly_station_id
                                /\ r["Timestamp"].date = first)

\* Line 70: set_index("Timestamp")[c].resample("H").mean(): one bin per hour
\* from the earliest to the latest timestamp of the frame, each holding the
\* mean of its rows, NaN for a bin without rows; no bin for an empty frame.
ResampleHourly(f, c) ==
    IF f = <<>> THEN <<>>
    ELSE LET hours == {f[i]["Timestamp"].hour : i \in DOMAIN f}
             lo == CHOOSE x \in hours : \A y \in hours : x <= y
             hi == CHOOSE x \in hours : \A y \in hours : x >= y
         IN  [j \in 1..(hi - lo + 1) |->
                 [key |-> lo + j - 1,
                  val |-> Mean(Column(SelectSeq(f,
                              LAMBDA r : r["Timestamp"].hour = lo + j - 1), c))]]

\* Lines 69-74.
HourlyS001 ==
    /\ pc = "hourly_s001"
    /\ LET s == ResampleHourly(FirstDayFrame(df), "PM2.5")
       IN  /\ hourly_pm25_s001' = s
           /\ IF IdxRaises(s)
              THEN /\ Abort
                   /\ UNCHANGED <<peak_hour_pm25, peak_pm25_value>>
              ELSE /\ peak_hour_pm25' = s[ArgMax(s)].key
                   /\ peak_pm25_value' = SeriesMax(s)
                   /\ Goto("classify", "peak hour")
    /\ UNCHANGED <<df, raw, described, corr,
                   avg_pm25_by_station, highest_pm25_station, highest_pm25_value,
                   avg_o3_by_station, lowest_o3_station, lowest_o3_value,
                   daily_avg_pm25_s003, days_exceeding_threshold, aqi_counts>>

----------------------------------------------------------------------------
(* 6. AQI Calculation *)

\* The chain with < in place of <=.
calculate_aqi_pm25_exclusive(x) ==
    IF ~x.nan /\ x.v < Tenths(120) THEN "Good"
    ELSE IF ~x.nan /\ x.v < Tenths(354) THEN "Moderate"
    ELSE IF ~x.nan /\ x.v < Tenths(554) THEN "Unhealthy for Sensitive Groups"
    ELSE IF ~x.nan /\ x.v < Tenths(1504) THEN "Unhealthy"
    ELSE IF ~x.nan /\ x.v < Tenths(2504) THEN "Very Unhealthy"
    ELSE "Hazardous"

calculate_aqi_pm25(pm25_concentration) ==
    IF Le(pm25_concentration, Num(Tenths(120))) THEN "Good"
    ELSE IF Le(pm25_concentration, Num(Tenths(354))) THEN "Moderate"
    ELSE IF Le(pm25_concentration, Num(Tenths(554))) THEN "Unhealthy for Sensitive Groups"
    ELSE IF Le(pm25_concentration, Num(Tenths(1504))) THEN "Unhealthy"
    ELSE IF Le(pm25_concentration, Num(Tenths(2504))) THEN "Very Unhealthy"
    ELSE "Hazardous"

\* Line 96: the derived column is added to df.
Classify ==
    /\ pc = "classify"
    /\ df' = [i \in DOMAIN df |-> WithCell(df[i], AqiCol, calculate_aqi_pm25(df[i]["PM2.5"]))]
    /\ pc' = "value_counts"
    /\ UNCHANGED <<raw, outputs, printed>>

\* Line 98: value_counts() of the category column.
ValueCounts ==
    /\ pc = "value_counts"
    /\ aqi_counts' = [l \in {df[i][AqiCol] : i \in DOMAIN df} |->
                         Cardinality({i \in DOMAIN df : df[i][AqiCol] = l})]
    /\ Goto("done", "AQI distribution")
    /\ UNCHANGED <<df, raw, described, corr,
                   avg_pm25_by_station, highest_pm25_station, highest_pm25_value,
                   avg_o3_by_station, lowest_o3_station, lowest_o3_value,
                   daily_avg_pm25_s003, days_exceeding_threshold,
                   hourly_pm25_s001, peak_hour_pm25, peak_pm25_value>>

----------------------------------------------------------------------------
(* 1. Data Loading: the tables read_csv may hand to the script *)

MaxRows == 3
MaxCleanRows == 4
MaxTimeRows == 3
MaxAqiTenths == 2600

MkRow(st, d, h, cells) ==
    [k \in {"Station ID", "Timestamp"} \cup Range(CleanCols) |->
        IF k = "Station ID" THEN st
        ELSE IF k = "Timestamp" THEN [text |-> <<d, h>>]
        ELSE cells[k]]

\* All six readings present and alike.
Flat(x) == [c \in Range(CleanCols) |-> x]

\* Stations with their PM2.5 and O3 readings, all at one timestamp, in any
\* row order.
StationRows ==
    {MkRow(st, 1, 0, [Flat(Num(Whole(20))) EXCEPT !["PM2.5"] = pm, !["O3"] = o3]) :
        st \in Range(StationOrder),
        pm \in {Num(Whole(10)), Num(Whole(30))},
        o3 \in {Num(Whole(10)), Num(Whole(30))}}

LoadStations(n) == \E k \in 0..n : \E t \in [1..k -> StationRows] : df = t

\* Hourly rows of one station; one column at a time takes missing, negative,
\* zero and positive readings cell by cell, the five others are wholly
\* missing or wholly present.
CleanVals == {NaN, Num(Whole(-5)), Num(0), Num(Whole(30))}
OtherVals == {NaN, Num(Whole(20))}

LoadReadings(n) ==
    \E k \in 0..n : \E c \in Range(CleanCols) :
    \E f \in [1..k -> CleanVals] : \E o \in OtherVals :
        df = [i \in 1..k |->
                 MkRow("S001", 1, i - 1,
                       [x \in Range(CleanCols) |-> IF x = c THEN f[i] ELSE o])]

\* Rows of S001 and S003 over two days and three hours, in timestamp order,
\* PM2.5 on either side of the threshold.
Stamps == {<<d, h>> : d \in 1..2, h \in 0..2}
Before(a, b) == a[1] < b[1] \/ (a[1] = b[1] /\ a[2] <= b[2])

LoadTimeline(n) ==
    \E k \in 0..n :
    \E ts \in {t \in [1..k -> Stamps] : \A i \in 1..k : i = 1 \/ Before(t[i - 1], t[i])} :
    \E f \in [1..k -> {"S001", "S003"} \X {Num(Whole(45)), Num(Whole(55))}] :
        df = [i \in 1..k |->
                 MkRow(f[i][1], ts[i][1], ts[i][2],
                       [Flat(Num(Whole(20))) EXCEPT !["PM2.5"] = f[i][2]])]

\* No reading, or a single reading at every tenth from -1.0 up.
LoadOneReading(top) ==
    \/ df = <<>>
    \/ \E t \in (-10)..top :
        df = <<MkRow("S001", 1, 0, [Flat(Num(Whole(20))) EXCEPT !["PM2.5"] = Num(Tenths(t))])>>

\* The script after line 7, nothing computed yet.
Loaded ==
    /\ raw = df
    /\ pc = "fillna"
    /\ printed = <<"data loading">>
    /\ described = None /\ corr = None
    /\ avg_pm25_by_station = None /\ highest_pm25_station = None
    /\ highest_pm25_value = None
    /\ avg_o3_by_station = None /\ lowest_o3_station = None
    /\ lowest_o3_value = None
    /\ daily_avg_pm25_s003 = None /\ days_exceeding_threshold = None
    /\ hourly_pm25_s001 = None /\ peak_hour_pm25 = None /\ peak_pm25_value = None
    /\ aqi_counts = None

Init == LoadStations(MaxRows) /\ Loaded
InitClean == LoadReadings(MaxCleanRows) /\ Loaded
InitTime == LoadTimeline(MaxTimeRows) /\ Loaded
InitAqi == LoadOneReading(MaxAqiTenths) /\ Loaded

Next ==
    \/ FillNa
    \/ Clamp
    \/ ParseTimestamp
    \/ DescribePollutants
    \/ CorrelationMatrix
    \/ StationPM25
    \/ StationO3
    \/ DailyS003
    \/ HourlyS001
    \/ Classify
    \/ ValueCounts

Spec == Init /\ [][Next]_vars
SpecClean == InitClean /\ [][Next]_vars
SpecTime == InitTime /\ [][Next]_vars
SpecAqi == InitAqi /\ [][Next]_vars

----------------------------------------------------------------------------
(* Vocabulary of the properties, stated without the operators above *)

Printed(line) == line \in Range(printed)
Cleaned == Printed("missing after cleaning")
Filled == pc = "clamp"
Classified == pc \in {"value_counts", "done"}
HourlyRan == Printed("peak hour") \/ (pc = "aborted" /\ Printed("days exceeding threshold"))

RECURSIVE SetSum(_, _)
SetSum(S, f) ==
    IF S = {} THEN 0
    ELSE LET x == CHOOSE y \in S : TRUE IN f[x] + SetSum(S \ {x}, f)

\* Twice the median of the non-missing cells of column c of table d: the sum
\* of the lower and the upper middle value.
TwiceMedian(d, c) ==
    LET P == {i \in DOMAIN d : ~d[i][c].nan}
        V == {d[i][c].v : i \in P}
        CountLe(a) == Cardinality({i \in P : d[i][c].v <= a})
        lo == CHOOSE a \in V : /\ 2 * CountLe(a) >= Cardinality(P)
                               /\ \A b \in V : b < a => 2 * CountLe(b) < Cardinality(P)
        hi == CHOOSE a \in V : /\ 2 * CountLe(a) > Cardinality(P)
                               /\ \A b \in V : b < a => 2 * CountLe(b) <= Cardinality(P)
    IN  lo + hi

HasObservation(d, c) == \E i \in DOMAIN d : ~d[i][c].nan
WhollyMissing(d, c) == d # <<>> /\ ~HasObservation(d, c)

\* e is the entry of the rows I of d: their count and the sum of column c.
IsMeanOf(e, d, I, c) ==
    /\ e.val.n = Cardinality(I)
    /\ e.val.sum = SetSum(I, [i \in I |-> d[i][c].v])

SameMean(a, b) == a.sum * b.n = b.sum * a.n
Below(a, b) == a.sum * b.n < b.sum * a.n

StationRank(k) == CHOOSE j \in DOMAIN StationOrder : StationOrder[j] = k

\* s holds one entry per station of d, each the mean of column c over the
\* station's rows.
StationMeans(s, d, c) ==
    /\ {s[j].key : j \in DOMAIN s} = {d[i]["Station ID"] : i \in DOMAIN d}
    /\ Cardinality({s[j].key : j \in DOMAIN s}) = Len(s)
    /\ \A j \in DOMAIN s :
          IsMeanOf(s[j], d, {i \in DOMAIN d : d[i]["Station ID"] = s[j].key}, c)

----------------------------------------------------------------------------
(* Properties *)

\* C1: after the Cleaner has run, no cell of the six target columns is
\* missing and none is negative, whatever was missing or negative on load.
C1_CleanedHasNoMissingNoNegative ==
    Cleaned =>
        \A i \in DOMAIN df : \A c \in Range(CleanCols) :
            ~df[i][c].nan /\ df[i][c].v >= 0

C1_Witness ==
    /\ Cleaned
    /\ \E c \in Range(CleanCols) : WhollyMissing(raw, c)
    /\ \E i \in DOMAIN raw : \E c \in Range(CleanCols) : Gt(Num(0), raw[i][c])
    /\ \E i \in DOMAIN raw : \E c \in Range(CleanCols) :
          raw[i][c].nan /\ HasObservation(raw, c)

\* C2: right after the fill, in every column that has an observation each
\* missing cell holds the median of the column's raw non-missing values (one
\* value for all of them), and the cells that were present are unchanged.
C2_FillUsesRawMedian ==
    Filled =>
        /\ Len(df) = Len(raw)
        /\ \A i \in DOMAIN raw : \A c \in Range(CleanCols) :
              IF raw[i][c].nan
              THEN HasObservation(raw, c) =>
                       ~df[i][c].nan /\ 2 * df[i][c].v = TwiceMedian(raw, c)
              ELSE df[i][c] = raw[i][c]

C2_Witness ==
    /\ Filled
    /\ \E c \in Range(CleanCols) : \E i, j, k, l \in DOMAIN raw :
          /\ i # j /\ raw[i][c].nan /\ raw[j][c].nan
          /\ ~raw[k][c].nan /\ ~raw[l][c].nan /\ raw[k][c].v < raw[l][c].v
          /\ df[i][c] = df[j][c]
          /\ 2 * df[i][c].v = raw[k][c].v + raw[l][c].v
          /\ \A m \in DOMAIN raw : raw[m][c] # df[i][c]

\* C3: the clamp sends every cell, present on load or imputed, to max(0, v):
\* a negative value to 0, any other value to itself; the rows stay.
C3_ClampIsMaxZero ==
    Cleaned =>
        /\ Len(df) = Len(raw)
        /\ \A i \in DOMAIN raw :
              /\ df[i]["Station ID"] = raw[i]["Station ID"]
              /\ \A c \in Range(CleanCols) :
                    IF ~raw[i][c].nan
                    THEN df[i][c] = (IF raw[i][c].v < 0 THEN Num(0) ELSE raw[i][c])
                    ELSE HasObservation(raw, c) =>
                            /\ ~df[i][c].nan
                            /\ 2 * df[i][c].v =
                                  (IF TwiceMedian(raw, c) < 0 THEN 0 ELSE TwiceMedian(raw, c))

C3_Witness ==
    /\ Cleaned
    /\ \E c \in Range(CleanCols) : \E i, j, k, l \in DOMAIN raw :
          /\ raw[i][c] = Num(Whole(-5)) /\ df[i][c] = Num(0)
          /\ raw[j][c] = Num(0) /\ df[j][c] = Num(0)
          /\ raw[k][c] = Num(Whole(30)) /\ df[k][c] = Num(Whole(30))
          /\ raw[l][c].nan /\ df[l][c] = Num(0)

\* The category the breakpoint table gives a reading of x twentieths.
CategoryOf(x) ==
    CASE x <= Tenths(120) -> "Good"
      [] Tenths(120) < x /\ x <= Tenths(354) -> "Moderate"
      [] Tenths(354) < x /\ x <= Tenths(554) -> "Unhealthy for Sensitive Groups"
      [] Tenths(554) < x /\ x <= Tenths(1504) -> "Unhealthy"
      [] Tenths(1504) < x /\ x <= Tenths(2504) -> "Very Unhealthy"
      [] x > Tenths(2504) -> "Hazardous"

\* C4: calculate_aqi_pm25 gives every reading, negative ones included, the
\* one category of the breakpoint table, each breakpoint belonging to the
\* lower category; the derived column holds that category of the row's PM2.5.
C4_AqiBreakpoints ==
    /\ \A i \in DOMAIN raw :
          ~raw[i]["PM2.5"].nan =>
              calculate_aqi_pm25(raw[i]["PM2.5"]) = CategoryOf(raw[i]["PM2.5"].v)
    /\ Classified =>
          \A i \in DOMAIN df : df[i][AqiCol] = CategoryOf(df[i]["PM2.5"].v)

C4_Witness ==
    /\ pc = "done"
    /\ Len(df) = 1
    /\ df[1]["PM2.5"] = Num(Tenths(354))
    /\ df[1][AqiCol] = "Moderate"
    /\ aqi_counts = [l \in {"Moderate"} |-> 1]

\* key holds the extreme mean of s (greatest when sign = 1, least when
\* sign = -1), val is that mean, and of the keys sharing it key is the first
\* in sorted order.
IsExtreme(s, key, val, sign) ==
    \E j \in DOMAIN s :
        /\ s[j].key = key
        /\ s[j].val = val
        /\ \A k \in DOMAIN s :
              IF sign = 1 THEN ~Below(val, s[k].val) ELSE ~Below(s[k].val, val)
        /\ \A k \in DOMAIN s :
              SameMean(s[k].val, val) => StationRank(s[k].key) >= StationRank(key)

\* C5: the per-station means hold one mean per station of the table, and the
\* reported station is one whose mean is the extreme of them all, reported
\* with that mean; among stations sharing the extreme mean it is the first in
\* sorted key order.
C5_GroupMeanExtremes ==
    Printed("lowest O3 station") =>
        /\ StationMeans(avg_pm25_by_station, df, "PM2.5")
        /\ IsExtreme(avg_pm25_by_station, highest_pm25_station, highest_pm25_value, 1)
        /\ StationMeans(avg_o3_by_station, df, "O3")
        /\ IsExtreme(avg_o3_by_station, lowest_o3_station, lowest_o3_value, -1)

C5_Witness ==
    /\ Printed("lowest O3 station")
    /\ Len(raw) = 3
    /\ raw[1]["Station ID"] = "S003" /\ raw[2]["Station ID"] = "S001"
    /\ raw[3]["Station ID"] = "S001"
    /\ highest_pm25_station = "S001"
    /\ \E j \in DOMAIN avg_pm25_by_station :
          /\ avg_pm25_by_station[j].key = "S003"
          /\ SameMean(avg_pm25_by_station[j].val, highest_pm25_value)
    /\ lowest_o3_station = "S001"
    /\ \E j \in DOMAIN avg_o3_by_station :
          /\ avg_o3_by_station[j].key = "S003"
          /\ SameMean(avg_o3_by_station[j].val, lowest_o3_value)

\* The rows of station st on date day.
RowsOn(d, st, day) ==
    {i \in DOMAIN d : d[i]["Station ID"] = st /\ d[i]["Timestamp"].date = day}

\* C6: the per-day means of S003 hold one mean per date S003 has a row on,
\* and the filter keeps exactly the days whose mean is above 50, a mean of
\* exactly 50 left out, in ascending date order with the means unchanged.
C6_ThresholdFilter ==
    Printed("days exceeding threshold") =>
        LET daily == daily_avg_pm25_s003
            kept == days_exceeding_threshold
        IN  /\ {daily[j].key : j \in DOMAIN daily} =
                  {df[i]["Timestamp"].date : i \in {k \in DOMAIN df : df[k]["Station ID"] = "S003"}}
            /\ \A j \in DOMAIN daily : IsMeanOf(daily[j], df, RowsOn(df, "S003", daily[j].key), "PM2.5")
            /\ \A j, k \in DOMAIN daily : j < k => daily[j].key < daily[k].key
            /\ \A j \in DOMAIN daily :
                  (daily[j].val.sum > Whole(50) * daily[j].val.n) <=> (daily[j] \in Range(kept))
            /\ Range(kept) \subseteq Range(daily)
            /\ \A j, k \in DOMAIN kept : j < k => kept[j].key < kept[k].key

C6_Witness ==
    /\ Printed("days exceeding threshold")
    /\ daily_avg_pm25_s003 =
          <<[key |-> 1, val |-> [sum |-> Whole(55), n |-> 1]],
            [key |-> 2, val |-> [sum |-> Whole(100), n |-> 2]]>>
    /\ days_exceeding_threshold = <<[key |-> 1, val |-> [sum |-> Whole(55), n |-> 1]]>>

\* C7: a query over no matching rows gives an explicit "no data" result: the
\* script never ends in a traceback and no series holds a NaN entry.
C7_NoDataIsExplicit ==
    /\ pc # "aborted"
    /\ HourlyRan => \A j \in DOMAIN hourly_pm25_s001 : ~MeanIsNaN(hourly_pm25_s001[j].val)

\* The rows of S001 on the earliest date of the table.
FirstDayRows(d) ==
    {i \in DOMAIN d :
        /\ d[i]["Station ID"] = "S001"
        /\ \A k \in DOMAIN d : d[i]["Timestamp"].date <= d[k]["Timestamp"].date}

\* C8: the hourly series has exactly the hours in which S001 has a row on the
\* first date as its keys, each with the mean of the hour's rows, and the
\* reported peak is a key holding the greatest mean, reported with it.
C8_HourlyKeysAreHoursWithReadings ==
    HourlyRan =>
        LET s == hourly_pm25_s001
            I == FirstDayRows(df)
        IN  /\ {s[j].key : j \in DOMAIN s} = {df[i]["Timestamp"].hour : i \in I}
            /\ \A j \in DOMAIN s :
                  IsMeanOf(s[j], df, {i \in I : df[i]["Timestamp"].hour = s[j].key}, "PM2.5")
            /\ Printed("peak hour") =>
                  \E j \in DOMAIN s :
                      /\ s[j].key = peak_hour_pm25 /\ s[j].val = peak_pm25_value
                      /\ \A k \in DOMAIN s : s[k].val.n = 0 \/ ~Below(s[j].val, s[k].val)

\* C9: a stage that fails ends the run, and a stage without a defined result
\* (a column with no observation to impute from, an aggregation over no
\* rows) is such a failure.
C9_FailureStopsRun ==
    /\ pc = "aborted" =>
          /\ ~Printed("AQI distribution")
          /\ \A i \in DOMAIN df : AqiCol \notin DOMAIN df[i]
    /\ (\E c \in Range(CleanCols) : WhollyMissing(raw, c)) => pc \in {"fillna", "aborted"}
    /\ (Printed("days exceeding threshold")
            /\ \A i \in DOMAIN raw : raw[i]["Station ID"] # "S003") => pc = "aborted"

AggregationSteps ==
    {"describe", "corr", "station_pm25", "station_o3", "daily_s003", "hourly_s001"}

\* C10 as stated: only the cleaning statements and the Classifier write the
\* table, and from the first aggregation query on the table is only read.
C10_WritesPrecedeReads ==
    [][/\ df' # df => pc \in {"fillna", "clamp", "to_datetime", "classify"}
       /\ pc \notin {"fillna", "clamp", "to_datetime"} => df' = df]_vars

\* C10, amended: only the cleaning statements and the Classifier write the
\* table; every aggregation query and the final report leave it unchanged;
\* the Classifier writes after all the aggregation queries, adding the
\* category column and nothing else.
C10_WritesAroundReads ==
    [][/\ df' # df => pc \in {"fillna", "clamp", "to_datetime", "classify"}
       /\ pc \in AggregationSteps \cup {"value_counts"} => df' = df
       /\ pc = "classify" =>
             /\ Printed("descriptive statistics") /\ Printed("peak hour")
             /\ Len(df') = Len(df)
             /\ \A i \in DOMAIN df :
                   /\ DOMAIN df'[i] = DOMAIN df[i] \cup {AqiCol}
                   /\ AqiCol \notin DOMAIN df[i]
                   /\ \A k \in DOMAIN df[i] : df'[i][k] = df[i][k]]_vars

C10_Witness ==
    /\ pc = "done"
    /\ Printed("days exceeding threshold") /\ Printed("peak hour")
    /\ Len(df) = 3
    /\ \A i \in DOMAIN df :
          /\ AqiCol \in DOMAIN df[i]
          /\ AqiCol \notin DOMAIN raw[i]
          /\ \A c \in Range(CleanCols) : df[i][c] = raw[i][c]
    /\ \E i \in DOMAIN df : df[i]["Station ID"] = "S003"

====
